---- MODULE Spec2Model ----
(***************************************************************************)
(* Model of backend/index.js: an Express application with a Mongoose       *)
(* "User" collection and a Multer disk store for uploaded images.          *)
(*                                                                         *)
(* JavaScript strings are sequences of tokens (a token is one character,   *)
(* or one fixed literal such as "uploads"), so that concatenation,         *)
(* startsWith, replace and basename are computed and not assumed.          *)
(* JavaScript values are records [t, v]: t is "string", "null" or          *)
(* "undefined", v the token sequence of a string.                          *)
(*                                                                         *)
(* The database and the disk are assumed to be reachable: connection and   *)
(* disk-write failures are not modelled.                                   *)
(***************************************************************************)
EXTENDS Integers, Sequences, FiniteSets, TLC

\* ------------------------------------------------------------- bounds
MaxIds == 2        \* ObjectIds the store hands out / clients ask for
MaxUploads == 2    \* accepted uploads

\* ------------------------------------------------------------- JS values
Str(s) == [t |-> "string", v |-> s]
Null == [t |-> "null", v |-> <<>>]
Undefined == [t |-> "undefined", v |-> <<>>]

\* JavaScript truthiness of a string, null or undefined value.
Truthy(x) == x.t = "string" /\ x.v # <<>>

\* req.file: undefined, or Multer's file object.
NoFile == [t |-> "undefined", filename |-> <<>>]
FileObj(filename) == [t |-> "file", filename |-> filename]
HasFile(f) == f.t = "file"

\* ------------------------------------------------------------- inputs
\* req.body: the three text fields, each a string or undefined.
Body(username, email, password) ==
    [username |-> username, email |-> email, password |-> password]
Bodies ==
    { Body(Str(<<"alice">>), Str(<<"a@x.com">>), Str(<<"p">>)),
      Body(Str(<<"bob">>), Undefined, Undefined),
      Body(Str(<<>>), Str(<<"a@x.com">>), Str(<<"p">>)) }

OrigNames == {<<"a", "/">>, <<"a", "_">>}
MimeTypes == {<<"image", "/", "png">>, <<"text", "/", "plain">>, <<"image">>}
FileParts == [originalname : OrigNames, mimetype : MimeTypes]

\* req.params.id: a well-formed ObjectId, or a string that is none.
ObjectIds == 1..MaxIds
IdParams == [valid : {TRUE}, oid : ObjectIds] \cup {[valid |-> FALSE, oid |-> 0]}

VARIABLES
    users,           \* the collection: ObjectId -> stored document
    nextId,          \* the next ObjectId `new User` generates
    files,           \* names of the files in uploadDir
    uploaded,        \* the names Multer stored accepted uploads under, in order
    clock,           \* Date.now()
    pending,         \* requests Multer has stored the file of, handler not yet
                     \* run: [route, n], the file being uploaded[n]
    res,             \* the last response sent
    deleted,         \* ObjectIds a DELETE answered 200 for
    omitUndefined    \* whether this Mongoose build drops undefined update keys

vars == <<users, nextId, files, uploaded, clock, pending, res, deleted, omitUndefined>>

\* ------------------------------------------------------------- helpers
DisallowedChars == {"<", ">", ":", "\"", "/", "\\", "|", "?", "*"}

sanitizeFilename(filename) ==
    [i \in 1..Len(filename) |->
        IF filename[i] \in DisallowedChars THEN "_" ELSE filename[i]]

\* storage.filename: Date.now() + '-' + sanitizedFileName
StorageFilename(originalname) ==
    <<ToString(clock), "-">> \o sanitizeFilename(originalname)

\* fileFilter: file.mimetype.startsWith('image/')
FileFilter(mimetype) ==
    Len(mimetype) >= 2 /\ mimetype[1] = "image" /\ mimetype[2] = "/"

UploadsPrefix == <<"/", "uploads", "/">>
BaseUrl == <<"http://localhost:8080">>

\* `/uploads/${req.file.filename}`
ImagePath(file) == Str(UploadsPrefix \o file.filename)

\* POST: req.file ? path : null        PUT: req.file ? path : undefined
CreateImage(file) == IF HasFile(file) THEN ImagePath(file) ELSE Null
UpdateImage(file) == IF HasFile(file) THEN ImagePath(file) ELSE Undefined

\* path.basename: what follows the last "/"
RECURSIVE Basename(_)
Basename(p) ==
    IF p = <<>> THEN <<>>
    ELSE IF p[Len(p)] = "/" THEN <<>>
    ELSE Basename(SubSeq(p, 1, Len(p) - 1)) \o <<p[Len(p)]>>

\* Mongoose `required: true` on a String path: not null, not undefined, not ''.
Required(x) == x.t = "string" /\ x.v # <<>>

Validates(doc) ==
    Required(doc.username) /\ Required(doc.email) /\ Required(doc.password)

\* Model.findById: the cast of the id fails, or the document, or null.
CastFails(id) == ~id.valid
Found(id) == id.valid /\ id.oid \in DOMAIN users

NoBody == <<>>

\* A response, with the route and id of the request it answers and whether
\* the request carried a file: body is the JSON documents sent (by _id), text
\* the error or message string, sent the file res.sendFile sent.
Response(route, id, status, body, text, reqFile, sent) ==
    [route |-> route, id |-> id, status |-> status, body |-> body,
     text |-> text, hadFile |-> HasFile(reqFile), sent |-> sent]

NoId == [valid |-> FALSE, oid |-> 0]

Init ==
    /\ users = <<>>
    /\ nextId = 1
    /\ files = {}
    /\ uploaded = <<>>
    /\ clock = 0
    /\ pending = {}
    /\ res = Response("none", NoId, 0, NoBody, "", NoFile, <<>>)
    /\ deleted = {}
    /\ omitUndefined \in BOOLEAN

\* Time passes. Date.now() is observable only through the names generated
\* from it, so the clock advances only past a millisecond a name was generated
\* in: it never runs ahead of the number of accepted uploads.
Tick ==
    /\ \E n \in DOMAIN uploaded : uploaded[n][1] = ToString(clock)
    /\ clock' = clock + 1
    /\ UNCHANGED <<users, nextId, files, uploaded, pending, res, deleted, omitUndefined>>

\* ------------------------------------------------------------- Multer
\* Faulty variant: destination names a directory other than uploadDir.
DiskWriteElsewhere(filename) == files

\* diskStorage: the file is written to destination (uploadDir) under filename;
\* a file of that name already there is overwritten.
DiskWrite(filename) == files \cup {filename}

Routes == {"POST /addUser", "PUT /users/:id"}
RouteIds(route) == IF route = "POST /addUser" THEN {NoId} ELSE IdParams

\* upload.single('image') on a request whose file part passes fileFilter: the
\* file is written under the generated name, then the handler is called.
UploadStored(route, part) ==
    /\ FileFilter(part.mimetype)
    /\ Len(uploaded) < MaxUploads
    /\ LET filename == StorageFilename(part.originalname) IN
        /\ files' = DiskWrite(filename)
        /\ uploaded' = Append(uploaded, filename)
        /\ pending' = pending \cup {[route |-> route, n |-> Len(uploaded')]}
    /\ UNCHANGED <<users, nextId, clock, res, deleted, omitUndefined>>

\* fileFilter calls back with an Error: Multer passes it to next(err), the
\* handler never runs and Express's default error handler answers 500.
UploadRejected(route, id, mimetype) ==
    /\ ~FileFilter(mimetype)
    /\ res' = Response(route, id, 500, NoBody, "Only image files are allowed",
                       NoFile, <<>>)
    /\ UNCHANGED <<users, nextId, files, uploaded, clock, pending, deleted, omitUndefined>>

\* ------------------------------------------------------------- POST /addUser
NewUser(body, file) ==
    [username |-> body.username, email |-> body.email,
     password |-> body.password, image |-> CreateImage(file)]

AddUser(body, file) ==
    LET newUser == NewUser(body, file) IN
    IF Validates(newUser)
    THEN /\ nextId <= MaxIds
         /\ users' = users @@ (nextId :> newUser)
         /\ nextId' = nextId + 1
         /\ res' = Response("POST /addUser", NoId, 201, nextId :> newUser, "",
                            file, <<>>)
    ELSE /\ res' = Response("POST /addUser", NoId, 500, NoBody,
                            "User validation failed", file, <<>>)
         /\ UNCHANGED <<users, nextId>>

\* ------------------------------------------------------------- GET /users
\* Faulty variant: the prefix is added without the `if (user.image)` test.
RewriteImageUnchecked(image) == Str(BaseUrl \o image.v)

\* if (user.image) user.image = `http://localhost:8080${user.image}`
RewriteImage(image) ==
    IF Truthy(image) THEN Str(BaseUrl \o image.v) ELSE image

usersWithImage ==
    [o \in DOMAIN users |-> [users[o] EXCEPT !.image = RewriteImage(@)]]

GetUsers ==
    /\ res' = Response("GET /users", NoId, 200, usersWithImage, "", NoFile, <<>>)
    /\ UNCHANGED <<users, nextId, files, uploaded, clock, pending, deleted, omitUndefined>>

\* ------------------------------------------------------------- GET /users/:id
GetUserResponse(id) ==
        IF CastFails(id)
        THEN Response("GET /users/:id", id, 500, NoBody, "Cast to ObjectId failed",
                      NoFile, <<>>)
        ELSE IF ~Found(id)
        THEN Response("GET /users/:id", id, 404, NoBody, "User not found",
                      NoFile, <<>>)
        ELSE Response("GET /users/:id", id, 200, id.oid :> users[id.oid], "",
                      NoFile, <<>>)

GetUser(id) ==
    /\ res' = GetUserResponse(id)
    /\ UNCHANGED <<users, nextId, files, uploaded, clock, pending, deleted, omitUndefined>>

\* ------------------------------------------------------------- PUT /users/:id
\* A key of the update whose value is undefined: dropped from the update by
\* builds of Mongoose that omit undefined keys, sent as null by the others.
PatchField(old, v) ==
    IF v.t = "undefined" THEN (IF omitUndefined THEN old ELSE Null) ELSE v

\* Faulty variant: the update always carries the image key ({ ..., image }).
PatchImageAlways(old, image) == IF image.t = "undefined" THEN Null ELSE image

\* ...(image && { image })
PatchImage(old, image) == IF Truthy(image) THEN image ELSE old

UpdatedUser(doc, body, image) ==
    [username |-> PatchField(doc.username, body.username),
     email |-> PatchField(doc.email, body.email),
     password |-> PatchField(doc.password, body.password),
     image |-> PatchImage(doc.image, image)]

\* Faulty variant: findByIdAndUpdate(id, update, { new: true, upsert: true }).
UsersAfterUpsert(id, body, image) ==
    IF id.oid \in DOMAIN users
    THEN [users EXCEPT ![id.oid] = UpdatedUser(@, body, image)]
    ELSE users @@ (id.oid :> UpdatedUser(
             [username |-> Null, email |-> Null, password |-> Null, image |-> Null],
             body, image))

\* findByIdAndUpdate(id, update, { new: true }): no upsert.
UsersAfterUpdate(id, body, image) ==
    IF id.oid \in DOMAIN users
    THEN [users EXCEPT ![id.oid] = UpdatedUser(@, body, image)]
    ELSE users

UpdateUser(id, body, file) ==
    IF CastFails(id)
    THEN /\ res' = Response("PUT /users/:id", id, 500, NoBody,
                            "Cast to ObjectId failed", file, <<>>)
         /\ UNCHANGED users
    ELSE /\ users' = UsersAfterUpdate(id, body, UpdateImage(file))
         /\ res' = IF Found(id)
                   THEN Response("PUT /users/:id", id, 200,
                                 id.oid :> users'[id.oid], "", file, <<>>)
                   ELSE Response("PUT /users/:id", id, 404, NoBody,
                                 "User not found", file, <<>>)

\* ------------------------------------------------------------- DELETE /users/:id
\* Faulty variant: findOneAndDelete with no filter removes the first record.
UsersAfterDeleteFirst(id) ==
    LET first == CHOOSE o \in DOMAIN users : \A q \in DOMAIN users : o <= q
    IN  [o \in DOMAIN users \ {first} |-> users[o]]

\* findByIdAndDelete(id)
UsersAfterDelete(id) == [o \in DOMAIN users \ {id.oid} |-> users[o]]

DeleteUser(id) ==
    /\ IF CastFails(id)
       THEN /\ res' = Response("DELETE /users/:id", id, 500, NoBody,
                               "Cast to ObjectId failed", NoFile, <<>>)
            /\ UNCHANGED <<users, deleted>>
       ELSE IF ~Found(id)
       THEN /\ res' = Response("DELETE /users/:id", id, 404, NoBody,
                               "User not found", NoFile, <<>>)
            /\ UNCHANGED <<users, deleted>>
       ELSE /\ users' = UsersAfterDelete(id)
            /\ deleted' = deleted \cup {id.oid}
            /\ res' = Response("DELETE /users/:id", id, 200, NoBody,
                               "User deleted successfully", NoFile, <<>>)
    /\ UNCHANGED <<nextId, files, uploaded, clock, pending, omitUndefined>>

\* ------------------------------------------------------------- GET /userImage/:id
GetUserImage(id) ==
    /\ res' =
        IF CastFails(id)
        THEN Response("GET /userImage/:id", id, 500, NoBody, "Internal Server Error",
                      NoFile, <<>>)
        ELSE IF ~Found(id) \/ ~Truthy(users[id.oid].image)
        THEN Response("GET /userImage/:id", id, 404, NoBody,
                      "User not found or image not available", NoFile, <<>>)
        ELSE LET imagePath == Basename(users[id.oid].image.v) IN
             IF imagePath \in files
             THEN Response("GET /userImage/:id", id, 200, NoBody, "",
                           NoFile, imagePath)
             ELSE Response("GET /userImage/:id", id, 500, NoBody,
                           "Error sending the image file", NoFile, <<>>)
    /\ UNCHANGED <<users, nextId, files, uploaded, clock, pending, deleted, omitUndefined>>

\* ------------------------------------------------------------- requests
\* A request without a file part: Multer stores nothing and the handler runs.
PostNoFile(body) ==
    /\ AddUser(body, NoFile)
    /\ UNCHANGED <<files, uploaded, clock, pending, deleted, omitUndefined>>

PutNoFile(id, body) ==
    /\ UpdateUser(id, body, NoFile)
    /\ UNCHANGED <<nextId, files, uploaded, clock, pending, deleted, omitUndefined>>

\* The handler of a request whose file Multer has stored. req.body and
\* req.params are read by the handler only, so they are drawn when it runs.
PendingFile(p) == FileObj(uploaded[p.n])

PostWithFile(p, body) ==
    /\ p.route = "POST /addUser"
    /\ AddUser(body, PendingFile(p))
    /\ pending' = pending \ {p}
    /\ UNCHANGED <<files, uploaded, clock, deleted, omitUndefined>>

PutWithFile(p, id, body) ==
    /\ p.route = "PUT /users/:id"
    /\ UpdateUser(id, body, PendingFile(p))
    /\ pending' = pending \ {p}
    /\ UNCHANGED <<nextId, files, uploaded, clock, deleted, omitUndefined>>

AddUserNoFile == \E body \in Bodies : PostNoFile(body)
AddUserWithFile == \E p \in pending, body \in Bodies : PostWithFile(p, body)
UpdateUserNoFile == \E id \in IdParams, body \in Bodies : PutNoFile(id, body)
UpdateUserWithFile ==
    \E p \in pending, id \in IdParams, body \in Bodies : PutWithFile(p, id, body)

Upload == \E route \in Routes, part \in FileParts : UploadStored(route, part)

UploadError ==
    \E route \in Routes, mimetype \in MimeTypes :
        \E id \in RouteIds(route) : UploadRejected(route, id, mimetype)

Delete == \E id \in IdParams : DeleteUser(id)
Get == \E id \in IdParams : GetUser(id)
GetImage == \E id \in IdParams : GetUserImage(id)

Next ==
    \/ Tick
    \/ Upload
    \/ UploadError
    \/ AddUserNoFile
    \/ AddUserWithFile
    \/ GetUsers
    \/ Get
    \/ UpdateUserNoFile
    \/ UpdateUserWithFile
    \/ Delete
    \/ GetImage

Spec == Init /\ [][Next]_vars

\* ------------------------------------------------------------- properties

\* C1: a PUT /users/:id without a file on a user that has an image leaves the
\* stored image as it was and stores the username supplied, and the GET
\* /users/:id that follows returns that image and that username; a stored
\* image changes only in the handler of a PUT that carries an accepted file,
\* and becomes that file's path.
UpdateKeepsImage ==
    [][ /\ \A id \in IdParams, body \in Bodies :
            ( /\ Found(id)
              /\ Truthy(users[id.oid].image)
              /\ PutNoFile(id, body) )
            => /\ users'[id.oid].image = users[id.oid].image
               /\ body.username.t = "string" =>
                    users'[id.oid].username = body.username
               /\ GetUserResponse(id)'.status = 200
               /\ GetUserResponse(id)'.body[id.oid].image = users[id.oid].image
               /\ body.username.t = "string" =>
                    GetUserResponse(id)'.body[id.oid].username = body.username
        /\ \A o \in DOMAIN users \cap DOMAIN users' :
            users'[o].image # users[o].image
            => \E p \in pending, id \in IdParams, body \in Bodies :
                /\ id.oid = o
                /\ PutWithFile(p, id, body)
                /\ users'[o].image = ImagePath(PendingFile(p))
      ]_vars

UpdateKeepsImageWitness ==
    /\ res.route = "PUT /users/:id"
    /\ res.status = 200
    /\ ~res.hadFile
    /\ Truthy(users[res.id.oid].image)
    /\ users[res.id.oid].username = Str(<<"bob">>)

\* C2: once a DELETE /users/:id has answered 200 for an id, no record with that
\* id is stored again and every GET /users/:id for it answers 404, whatever
\* requests come in between.
DeletedStaysDeleted ==
    /\ \A o \in deleted :
        /\ o \notin DOMAIN users
        /\ GetUserResponse([valid |-> TRUE, oid |-> o]).status = 404
    /\ (res.route = "GET /users/:id" /\ res.id.valid /\ res.id.oid \in deleted)
        => res.status = 404

DeletedStaysDeletedWitness ==
    /\ res.route = "GET /users/:id"
    /\ res.id.oid \in deleted
    /\ res.status = 404
    /\ DOMAIN users # {}
    /\ \E o \in DOMAIN users : o > res.id.oid

\* The id-scoped routes' steps for the id of a request.
IdRouteStep(id) ==
    \/ GetUser(id)
    \/ \E body \in Bodies : PutNoFile(id, body)
    \/ \E p \in pending, body \in Bodies : PutWithFile(p, id, body)
    \/ \E mimetype \in MimeTypes : UploadRejected("PUT /users/:id", id, mimetype)
    \/ DeleteUser(id)
    \/ GetUserImage(id)

\* C3: on GET, PUT, DELETE /users/:id and GET /userImage/:id, a request with a
\* well-formed id that matches no stored record is answered 404 and leaves
\* the records as they were.
UnknownIdIsNotFound ==
    [][ \A id \in IdParams :
            (id.valid /\ ~Found(id) /\ IdRouteStep(id))
            => (res'.status = 404 /\ users' = users) ]_vars

\* C4: GET /users/:id with a malformed id answers 404, as for an unknown id.
MalformedIdIsNotFound ==
    (res.route = "GET /users/:id" /\ ~res.id.valid) => res.status = 404

\* declared MIME type beginning with `image/`
BeginsWithImage(mimetype) ==
    Len(mimetype) >= 2 /\ SubSeq(mimetype, 1, 2) = <<"image", "/">>

\* C5: a POST /addUser whose file part's MIME type does not begin with image/
\* writes no file, creates no record and is answered with a 4xx status.
NonImageIsClientError ==
    [][ \A part \in FileParts :
            ( /\ ~BeginsWithImage(part.mimetype)
              /\ \/ UploadStored("POST /addUser", part)
                 \/ UploadRejected("POST /addUser", NoId, part.mimetype) )
            => ( /\ files' = files
                 /\ users' = users
                 /\ res'.status \in 400..499 ) ]_vars

\* The same, without the status: no file is written and no record created.
NonImageStoresNothing ==
    [][ \A part \in FileParts :
            ( /\ ~BeginsWithImage(part.mimetype)
              /\ \/ UploadStored("POST /addUser", part)
                 \/ UploadRejected("POST /addUser", NoId, part.mimetype) )
            => (files' = files /\ users' = users) ]_vars

\* C6: the image of every stored user, when present, is /uploads/<name> for a
\* name an accepted upload was written under, and that file is in uploadDir.
ImageRefersToStoredFile ==
    \A o \in DOMAIN users :
        users[o].image.t = "string"
        => \E n \in DOMAIN uploaded :
            /\ users[o].image.v = <<"/", "uploads", "/">> \o uploaded[n]
            /\ uploaded[n] \in files

ImageRefersToStoredFileWitness ==
    /\ deleted # {}
    /\ res.route = "PUT /users/:id"
    /\ res.status = 200
    /\ res.hadFile
    /\ \E o \in DOMAIN users : users[o].image.t = "string"

\* C7: no two accepted uploads are stored under the same generated name, and
\* no two users' images are the same file.
GeneratedNamesUnique ==
    /\ \A i, j \in DOMAIN uploaded : i # j => uploaded[i] # uploaded[j]
    /\ \A o, q \in DOMAIN users :
        (o # q /\ users[o].image.t = "string") => users[o].image # users[q].image

\* C8: DELETE /users/:id removes at most the record of that id: the files of
\* uploadDir and every other record are as before, whether it answers 200 or
\* 404, and after a 200 the record is gone.
DeleteRemovesOnlyRecord ==
    [][ \A id \in IdParams :
            DeleteUser(id)
            => /\ files' = files
               /\ \A o \in DOMAIN users \ {id.oid} :
                    o \in DOMAIN users' /\ users'[o] = users[o]
               /\ DOMAIN users' \subseteq DOMAIN users
               /\ res'.status = 200 => id.oid \notin DOMAIN users'
               /\ res'.status = 404 => users' = users ]_vars

DeleteRemovesOnlyRecordWitness ==
    /\ res.route = "DELETE /users/:id"
    /\ res.status = 200
    /\ files # {}
    /\ DOMAIN users # {}

\* C9: GET /users answers with every stored record, each non-empty image
\* prefixed with the base address, and stores nothing: the stored images are
\* still the relative paths, so that the next GET /users answers the same and
\* GET /users/:id shows the stored path.
ListRewritesResponseOnly ==
    [][ GetUsers
        => /\ users' = users
           /\ files' = files
           /\ res'.status = 200
           /\ DOMAIN res'.body = DOMAIN users
           /\ \A o \in DOMAIN users :
                /\ res'.body[o].username = users[o].username
                /\ res'.body[o].email = users[o].email
                /\ res'.body[o].password = users[o].password
                /\ res'.body[o].image =
                    IF users[o].image.t = "string" /\ users[o].image.v # <<>>
                    THEN Str(<<"http://localhost:8080">> \o users[o].image.v)
                    ELSE users[o].image
                /\ users'[o].image.t = "string" =>
                    SubSeq(users'[o].image.v, 1, 3) = <<"/", "uploads", "/">>
                /\ GetUserResponse([valid |-> TRUE, oid |-> o])'.body[o].image
                    = users[o].image
           /\ usersWithImage' = res'.body ]_vars

ListRewritesResponseOnlyWitness ==
    /\ res.route = "GET /users"
    /\ \E o, q \in DOMAIN users :
        /\ Truthy(users[o].image)
        /\ res.body[o].image = Str(BaseUrl \o users[o].image.v)
        /\ users[q].image = Null
        /\ res.body[q].image = Null

\* C10: every stored record has a username, an email and a password that are
\* present and not empty.
RequiredFieldsPresent ==
    \A o \in DOMAIN users :
        \A x \in {users[o].username, users[o].email, users[o].password} :
            x.t = "string" /\ x.v # <<>>
====
